---- MODULE Spec2Model ----
(***************************************************************************)
(* Multi-Model AI Response Fusion (src/main.py): the /ask and /web-ask     *)
(* request handlers, the fan-out over three backend models on the asyncio  *)
(* event loop, the judge call and the parsing of its output, and the       *)
(* markup normaliser convert_to_markup.                                    *)
(*                                                                         *)
(* A Python str is modelled as a sequence of one-character strings, so     *)
(* that split, strip, replace, startswith and the regular expressions of   *)
(* the source are computed character by character.                         *)
(***************************************************************************)
EXTENDS Integers, Sequences, FiniteSets, TLC

VARIABLES
    endpoint,          \* "ask" | "web_ask": the route of the request
    cred,              \* outcome of the credential the request carries
    env,               \* os.environ as far as the handlers read it
    pc,                \* position of the request handler
    ready,             \* the event loop's FIFO of ready callbacks
    task,              \* the three call_cerebras_model tasks given to gather
    outer,             \* the future asyncio.gather returns
    nfinished,         \* gather's count of finished children
    inflight,          \* the upstream call the loop thread is blocked in
    calls,             \* every upstream chat.completions.create issued, in order
    model_responses,   \* the dict built from gather's result
    judge_response,    \* raw text the judge returned
    lines,             \* judge_response.split('\n')
    line_no,           \* index of the next line of the scan (1-based)
    final_answer,      \* process_with_judge's local final_answer
    reasoning,         \* process_with_judge's local reasoning
    current_section,   \* process_with_judge's local current_section
    judge_result,      \* the dict process_with_judge returns
    response,          \* what the request finally answers
    text,              \* convert_to_markup: the argument
    markup,            \* convert_to_markup(text)
    remarkup           \* convert_to_markup(convert_to_markup(text))

vars == <<endpoint, cred, env, pc, ready, task, outer, nfinished, inflight,
          calls, model_responses, judge_response, lines, line_no, final_answer,
          reasoning, current_section, judge_result, response, text, markup,
          remarkup>>

-----------------------------------------------------------------------------
(* Bounds of the model *)

\* longest judge output, in pieces, a request of Spec receives
MaxJudgePieces == 2
\* longest judge output, in pieces, SpecJudge parses
MaxParsePieces == 4
\* longest text, in pieces, SpecMarkup normalises
MaxMarkupPieces == 4

-----------------------------------------------------------------------------
(* Python str operations *)

Whitespace == {" ", "\n", "\t", "\r"}

IsSpace(c) == c \in Whitespace

Digits == {"0", "1", "2", "3", "4", "5", "6", "7", "8", "9"}

LowerCase == <<"a", "b", "c", "d", "e", "f", "g", "h", "i", "j", "k", "l", "m",
               "n", "o", "p", "q", "r", "s", "t", "u", "v", "w", "x", "y", "z">>

UpperCase == <<"A", "B", "C", "D", "E", "F", "G", "H", "I", "J", "K", "L", "M",
               "N", "O", "P", "Q", "R", "S", "T", "U", "V", "W", "X", "Y", "Z">>

Min(S) == CHOOSE x \in S : \A y \in S : x <= y

Max(S) == CHOOSE x \in S : \A y \in S : x >= y

\* s[i:] of Python, 1-based
From(s, i) == SubSeq(s, i, Len(s))

\* s[i-1:i-1+len(p)] == p
MatchAt(s, i, p) == i + Len(p) - 1 <= Len(s) /\ SubSeq(s, i, i + Len(p) - 1) = p

StartsWith(s, p) == MatchAt(s, 1, p)

EndsWith(s, p) == Len(p) <= Len(s) /\ SubSeq(s, Len(s) - Len(p) + 1, Len(s)) = p

\* p in s
Contains(s, p) == \E i \in 1..(Len(s) + 1) : MatchAt(s, i, p)

\* s.strip()
Strip(s) ==
    LET keep == {i \in 1..Len(s) : ~IsSpace(s[i])}
    IN  IF keep = {} THEN <<>> ELSE SubSeq(s, Min(keep), Max(keep))

\* s.upper()
Upper(s) ==
    [i \in 1..Len(s) |->
        IF \E k \in 1..Len(LowerCase) : LowerCase[k] = s[i]
        THEN UpperCase[CHOOSE k \in 1..Len(LowerCase) : LowerCase[k] = s[i]]
        ELSE s[i]]

RECURSIVE Replace(_, _, _)
\* s.replace(old, new), old non-empty: every non-overlapping occurrence, left to right
Replace(s, old, new) ==
    LET at == {m \in 1..Len(s) : MatchAt(s, m, old)}
    IN  IF at = {} THEN s
        ELSE SubSeq(s, 1, Min(at) - 1) \o new
                 \o Replace(From(s, Min(at) + Len(old)), old, new)

RECURSIVE Split(_, _)
\* s.split(sep) for a one-character sep: always at least one (possibly empty) part
Split(s, sep) ==
    LET at == {i \in 1..Len(s) : s[i] = sep}
    IN  IF at = {} THEN <<s>>
        ELSE <<SubSeq(s, 1, Min(at) - 1)>> \o Split(From(s, Min(at) + 1), sep)

RECURSIVE Join(_, _)
\* sep.join(parts)
Join(parts, sep) ==
    IF parts = <<>> THEN <<>>
    ELSE IF Len(parts) = 1 THEN parts[1]
    ELSE parts[1] \o sep \o Join(Tail(parts), sep)

\* first index >= i of s that holds no whitespace, Len(s)+1 if none: the greedy \s*
SkipSpace(s, i) ==
    LET stop == {j \in i..Len(s) : ~IsSpace(s[j])}
    IN  IF stop = {} THEN Len(s) + 1 ELSE Min(stop)

\* first index >= i of s that holds a newline, Len(s)+1 if none: the greedy .*
LineEnd(s, i) ==
    LET stop == {j \in i..Len(s) : s[j] = "\n"}
    IN  IF stop = {} THEN Len(s) + 1 ELSE Min(stop)

\* ^ under re.MULTILINE
AtLineStart(s, i) == i = 1 \/ s[i - 1] = "\n"

-----------------------------------------------------------------------------
(* convert_to_markup *)

TagHr == <<"<", "h", "r", ">">>

TagBr == <<"<", "b", "r", ">">>

TagStrongOpen == <<"<", "s", "t", "r", "o", "n", "g", ">">>

TagStrongClose == <<"<", "/", "s", "t", "r", "o", "n", "g", ">">>

TagEmOpen == <<"<", "e", "m", ">">>

TagEmClose == <<"<", "/", "e", "m", ">">>

TagLiOpen == <<"<", "l", "i", ">">>

TagLiClose == <<"<", "/", "l", "i", ">">>

TagPOpen == <<"<", "p", ">">>

TagPClose == <<"<", "/", "p", ">">>

TagUlOpen == <<"<", "u", "l", " ", "c", "l", "a", "s", "s", "=", "\"", "l", "i", "s", "t", "-", "u", "n", "s", "t", "y", "l", "e", "d", "\"", ">">>

TagUlClose == <<"<", "/", "u", "l", ">">>

TagQuoteOpen == <<"<", "b", "l", "o", "c", "k", "q", "u", "o", "t", "e", " ", "c", "l", "a", "s", "s", "=", "\"", "b", "l", "o", "c", "k", "q", "u", "o", "t", "e", "\"", ">", "<", "p", ">">>

TagQuoteClose == <<"<", "/", "p", ">", "<", "/", "b", "l", "o", "c", "k", "q", "u", "o", "t", "e", ">">>

EmptyParagraph == <<"<", "p", ">", "<", "/", "p", ">">>

LevelDigit == <<"1", "2", "3">>

\* the '#' * n a header of level n starts with
Hashes(n) == [k \in 1..n |-> "#"]

\* <hn>
HOpen(n) == <<"<", "h", LevelDigit[n], ">">>

\* </hn>
HClose(n) == <<"<", "/", "h", LevelDigit[n], ">">>

RECURSIVE SubHeader(_, _, _)
\* re.sub(r'^#{n}\s*(.*)', r'<hn>\1</hn>', s, flags=re.MULTILINE), s scanned from
\* index i: \s* is greedy and crosses newlines, (.*) runs to the end of the line
SubHeader(s, i, n) ==
    LET at == {m \in i..Len(s) : AtLineStart(s, m) /\ MatchAt(s, m, Hashes(n))}
    IN  IF at = {} THEN From(s, i)
        ELSE LET j == SkipSpace(s, Min(at) + n)
                 k == LineEnd(s, j)
             IN  SubSeq(s, i, Min(at) - 1) \o HOpen(n) \o SubSeq(s, j, k - 1)
                     \o HClose(n) \o SubHeader(s, k, n)

RECURSIVE SubRule(_, _)
\* re.sub(r'^---+', r'<hr>', s, flags=re.MULTILINE), s scanned from index i
SubRule(s, i) ==
    LET at == {m \in i..Len(s) : AtLineStart(s, m) /\ MatchAt(s, m, <<"-", "-", "-">>)}
    IN  IF at = {} THEN From(s, i)
        ELSE LET stop == {j \in Min(at)..Len(s) : s[j] # "-"}
                 k == IF stop = {} THEN Len(s) + 1 ELSE Min(stop)
             IN  SubSeq(s, i, Min(at) - 1) \o TagHr \o SubRule(s, k)

RECURSIVE SubSpan(_, _, _, _, _)
\* re.sub(d (.*?) d, open \1 close, s) for the delimiter d ('**' or '*'), s scanned
\* from index i: the lazy group stops at the first later d on the same line
SubSpan(s, i, d, open, close) ==
    LET Ends(m) == {j \in (m + Len(d))..Len(s) :
                       /\ MatchAt(s, j, d)
                       /\ \A k \in (m + Len(d))..(j - 1) : s[k] # "\n"}
        at == {m \in i..Len(s) : MatchAt(s, m, d) /\ Ends(m) # {}}
    IN  IF at = {} THEN From(s, i)
        ELSE LET m == Min(at)
                 j == Min(Ends(m))
             IN  SubSeq(s, i, m - 1) \o open \o SubSeq(s, m + Len(d), j - 1) \o close
                     \o SubSpan(s, j + Len(d), d, open, close)

\* re.match(r'^\d+\.\s', line)
IsNumbered(line) ==
    LET stop == {j \in 1..Len(line) : line[j] \notin Digits}
        a == IF stop = {} THEN Len(line) + 1 ELSE Min(stop)
    IN  a > 1 /\ a + 1 <= Len(line) /\ line[a] = "." /\ IsSpace(line[a + 1])

\* re.sub(r'^[-\d\.]+\s*', '', line)
StripBullet(line) ==
    LET stop == {j \in 1..Len(line) : line[j] \notin (Digits \cup {"-", "."})}
        a == IF stop = {} THEN Len(line) + 1 ELSE Min(stop)
    IN  IF a = 1 THEN line ELSE From(line, SkipSpace(line, a))

\* the body of the loop over lines (Step 5), for one line
ProcessLine(raw) ==
    LET line == Strip(raw)
    IN  IF line = <<>> THEN TagBr
        ELSE IF StartsWith(line, <<"<", "h">>) /\ EndsWith(line, <<">">>) THEN line
        ELSE IF StartsWith(line, TagHr) THEN line
        ELSE IF StartsWith(line, <<"-", " ">>) \/ IsNumbered(line)
             THEN TagLiOpen \o StripBullet(line) \o TagLiClose
        ELSE IF StartsWith(line, <<">", " ">>)
             THEN TagQuoteOpen \o From(line, 3) \o TagQuoteClose
        ELSE TagPOpen \o line \o TagPClose

RECURSIVE ListRunEnd(_, _)
\* (<li>.*?</li>\n?)+ under re.DOTALL matched at index i of s: the index just past
\* the match, i itself when there is none
ListRunEnd(s, i) ==
    IF ~MatchAt(s, i, TagLiOpen) THEN i
    ELSE LET closes == {j \in (i + Len(TagLiOpen))..Len(s) : MatchAt(s, j, TagLiClose)}
         IN  IF closes = {} THEN i
             ELSE LET e == Min(closes) + Len(TagLiClose)
                  IN  ListRunEnd(s, IF e <= Len(s) /\ s[e] = "\n" THEN e + 1 ELSE e)

RECURSIVE GroupLists(_, _)
\* Step 6: every run of list items is wrapped in one <ul>
GroupLists(s, i) ==
    LET at == {m \in i..Len(s) : ListRunEnd(s, m) > m}
    IN  IF at = {} THEN From(s, i)
        ELSE LET m == Min(at)
                 e == ListRunEnd(s, m)
             IN  SubSeq(s, i, m - 1) \o TagUlOpen \o <<"\n">> \o SubSeq(s, m, e - 1)
                     \o TagUlClose \o GroupLists(s, e)

RECURSIVE SubBreaks(_, _)
\* re.sub(r'<br>\s*<br>', '<br>', s), s scanned from index i
SubBreaks(s, i) ==
    LET at == {m \in i..Len(s) :
                  /\ MatchAt(s, m, TagBr)
                  /\ MatchAt(s, SkipSpace(s, m + Len(TagBr)), TagBr)}
    IN  IF at = {} THEN From(s, i)
        ELSE SubSeq(s, i, Min(at) - 1) \o TagBr
                 \o SubBreaks(s, SkipSpace(s, Min(at) + Len(TagBr)) + Len(TagBr))

RECURSIVE CollapseNewlines(_, _)
\* re.sub(r'\n+', '\n', s), s scanned from index i
CollapseNewlines(s, i) ==
    LET at == {m \in i..Len(s) : s[m] = "\n"}
    IN  IF at = {} THEN From(s, i)
        ELSE LET stop == {j \in Min(at)..Len(s) : s[j] # "\n"}
             IN  SubSeq(s, i, Min(at)) \o
                     CollapseNewlines(s, IF stop = {} THEN Len(s) + 1 ELSE Min(stop))

\* Steps 1 and 2: headers (### before ## before #), then horizontal rules
ConvertBlocks(s) == SubRule(SubHeader(SubHeader(SubHeader(s, 1, 3), 1, 2), 1, 1), 1)

\* Steps 3 and 4: bold before italic
ConvertInline(s) ==
    SubSpan(SubSpan(s, 1, <<"*", "*">>, TagStrongOpen, TagStrongClose),
            1, <<"*">>, TagEmOpen, TagEmClose)

\* Step 5: split, process each line, join
ConvertLines(s) ==
    LET ls == Split(s, "\n")
    IN  Join([k \in 1..Len(ls) |-> ProcessLine(ls[k])], <<"\n">>)

\* Step 7: clean up
CleanUp(s) ==
    CollapseNewlines(SubBreaks(Replace(s, EmptyParagraph, <<>>), 1), 1)

convert_to_markup(s) ==
    IF s = <<>> THEN <<>>
    ELSE Strip(CleanUp(GroupLists(ConvertLines(ConvertInline(ConvertBlocks(s))), 1)))

-----------------------------------------------------------------------------
(* Configuration, credentials and the values the provider can answer *)

Labels == <<"MODEL1", "MODEL2", "MODEL3">>

\* the identifier each variable holds when it is set; "" is os.getenv's None
ModelId == [MODEL1 |-> "m1", MODEL2 |-> "m2", MODEL3 |-> "m3", JUDGE |-> "mj"]

\* os.environ: the four model variables set or unset, SHOW_MODEL_OUTPUT, and
\* whether MAX_TOKENS, TEMPERATURE and TOP_P parse as numbers
Envs ==
    {[MODEL1 |-> a, MODEL2 |-> b, MODEL3 |-> c, JUDGE |-> j,
      SHOW_MODEL_OUTPUT |-> sh, PARAMS |-> pa] :
        a \in {"", ModelId.MODEL1}, b \in {"", ModelId.MODEL2},
        c \in {"", ModelId.MODEL3}, j \in {"", ModelId.JUDGE},
        sh \in BOOLEAN, pa \in {"valid", "invalid"}}

\* /ask: the code-x-key header against CODE_X_KEY; /web-ask: the CSRF token
Credentials(ep) ==
    IF ep = "ask" THEN {"ok", "invalid", "unconfigured"} ELSE {"ok", "invalid"}

\* texts a backend model answers
BackendTexts == {<<"x">>, <<"y">>}

\* what the provider's client raises
ProviderErrors == {"APIError"}

FINAL_ANSWER_MARKER == <<"F", "I", "N", "A", "L", "_", "A", "N", "S", "W", "E", "R", ":">>

REASONING_MARKER == <<"R", "E", "A", "S", "O", "N", "I", "N", "G", ":">>

FINAL_ANSWER_SPACED == <<"F", "I", "N", "A", "L", " ", "A", "N", "S", "W", "E", "R", ":">>

\* the pieces judge outputs are put together from
JudgePieces ==
    {FINAL_ANSWER_MARKER, REASONING_MARKER, <<" ">>, <<"\n">>, <<"a">>,
     <<"f", "i", "n", "a", "l", " ", "a", "n", "s", "w", "e", "r", ":">>}

\* the pieces texts to normalise are put together from
MarkupPieces == {<<"#">>, <<"-">>, <<"*">>, <<" ">>, <<"\n">>, <<"a">>, TagBr}

RECURSIVE Texts(_, _)
\* every concatenation of at most n pieces
Texts(pieces, n) ==
    IF n = 0 THEN {<<>>}
    ELSE LET shorter == Texts(pieces, n - 1)
         IN  shorter \cup {t \o q : t \in shorter, q \in pieces}

\* "FINAL_ANSWER: Hello\nworld\nREASONING: because X"
ExampleJudgeOutput ==
    FINAL_ANSWER_MARKER \o <<" ", "H", "e", "l", "l", "o", "\n", "w", "o", "r", "l", "d", "\n">>
        \o REASONING_MARKER \o <<" ", "b", "e", "c", "a", "u", "s", "e", " ", "X">>

-----------------------------------------------------------------------------
(* Exceptions and responses *)

NoException == [type |-> "none", status |-> 0, detail |-> <<>>]

HTTPException(status, detail) == [type |-> "HTTPException", status |-> status, detail |-> detail]

\* int()/float() of a malformed generation parameter, lines 70-72
ValueError == [type |-> "ValueError", status |-> 0, detail |-> <<"invalid literal">>]

\* line 131
UpstreamError(model, e) == HTTPException(500, <<"Error calling", model, e>>)

\* a request that failed: FastAPI answers an HTTPException with its status and detail
ErrorResponse(exc) == [kind |-> "error", status |-> exc.status, detail |-> exc.detail]

NoResponse == [kind |-> "none"]

NoDict == [set |-> FALSE]

NewTask == [state |-> "created", model |-> "", content |-> <<>>, exc |-> NoException]

Step(i) == [kind |-> "step", id |-> i]

Done(i) == [kind |-> "done", id |-> i]

Wakeup == [kind |-> "wakeup", id |-> 0]

-----------------------------------------------------------------------------
(* Pure parts of the handlers *)

Question == <<"q">>

\* a check that looks at MODEL1 alone
ModelsConfigured_FirstOnly(e) == e.MODEL1 # ""

\* all([model1, model2, model3])
ModelsConfigured(e) == \A k \in 1..3 : e[Labels[k]] # ""

\* the dict with the second and third result under each other's label
BuildModelResponses_Swapped(responses) ==
    [set |-> TRUE, MODEL1 |-> responses[1], MODEL2 |-> responses[3],
     MODEL3 |-> responses[2]]

\* the dict built from gather's list: responses[0], responses[1], responses[2]
BuildModelResponses(responses) ==
    [set |-> TRUE, MODEL1 |-> responses[1], MODEL2 |-> responses[2],
     MODEL3 |-> responses[3]]

\* gather as with return_exceptions=True: a failed child counts as a result
ChildFailed_Ignored(t) == FALSE

\* gather's test of a finished child: fut.exception() is not None
ChildFailed(t) == t.state = "raised"

\* the loop body with `line` appended where the source appends line.strip()
ScanStep_Unstripped(st, line) ==
    IF StartsWith(line, FINAL_ANSWER_MARKER)
    THEN [st EXCEPT !.current_section = "final_answer",
                    !.final_answer = Strip(Replace(line, FINAL_ANSWER_MARKER, <<>>))]
    ELSE IF StartsWith(line, REASONING_MARKER)
    THEN [st EXCEPT !.current_section = "reasoning",
                    !.reasoning = Strip(Replace(line, REASONING_MARKER, <<>>))]
    ELSE IF st.current_section = "final_answer"
    THEN [st EXCEPT !.final_answer = @ \o <<" ">> \o line]
    ELSE IF st.current_section = "reasoning"
    THEN [st EXCEPT !.reasoning = @ \o <<" ">> \o line]
    ELSE st

\* the body of the loop over the judge's lines, for one line; st holds the locals
\* final_answer, reasoning and current_section
ScanStep(st, line) ==
    IF StartsWith(line, FINAL_ANSWER_MARKER)
    THEN [st EXCEPT !.current_section = "final_answer",
                    !.final_answer = Strip(Replace(line, FINAL_ANSWER_MARKER, <<>>))]
    ELSE IF StartsWith(line, REASONING_MARKER)
    THEN [st EXCEPT !.current_section = "reasoning",
                    !.reasoning = Strip(Replace(line, REASONING_MARKER, <<>>))]
    ELSE IF st.current_section = "final_answer"
    THEN [st EXCEPT !.final_answer = @ \o <<" ">> \o Strip(line)]
    ELSE IF st.current_section = "reasoning"
    THEN [st EXCEPT !.reasoning = @ \o <<" ">> \o Strip(line)]
    ELSE st

\* no fallback: final_answer stays as the scan left it
ApplyFallback_Missing(fa, re, raw) == fa

\* the fallback after the scan: final_answer as it leaves lines 203-215
ApplyFallback(fa, re, raw) ==
    IF Strip(fa) = <<>> /\ Strip(re) = <<>>
    THEN IF \/ Contains(Upper(raw), FINAL_ANSWER_MARKER)
            \/ Contains(Upper(raw), FINAL_ANSWER_SPACED)
         THEN Strip(raw)
         ELSE Strip(raw)
    ELSE fa

\* the dict process_with_judge returns
JudgeResult(fa, re) == [set |-> TRUE, final_answer |-> Strip(fa), reasoning |-> Strip(re)]

\* /ask's ModelResponse
ModelResponse(input, models, judge) ==
    [kind |-> "ModelResponse", input |-> input, models |-> models, judge |-> judge]

\* the final answer put through the normaliser
WebResponseText_Normalized(jr) == convert_to_markup(jr.final_answer)

\* the text /web-ask answers with: judge_result["final_answer"], as it is
WebResponseText(jr) == jr.final_answer

\* /web-ask's WebResponse
WebResponse(t) == [kind |-> "WebResponse", response |-> t]

-----------------------------------------------------------------------------
(* The request: initial states *)

Idle ==
    /\ ready = <<>>
    /\ task = [i \in 1..3 |-> NewTask]
    /\ outer = [state |-> "pending", result |-> <<>>, exc |-> NoException]
    /\ nfinished = 0
    /\ inflight = ""
    /\ calls = <<>>
    /\ model_responses = NoDict
    /\ judge_response = <<>>
    /\ lines = <<>>
    /\ line_no = 0
    /\ final_answer = <<>>
    /\ reasoning = <<>>
    /\ current_section = ""
    /\ judge_result = NoDict
    /\ response = NoResponse

NoMarkup ==
    /\ text = <<>>
    /\ markup = <<>>
    /\ remarkup = <<>>

\* a request arrives: /ask first passes the verify_api_key dependency
Init ==
    /\ endpoint \in {"ask", "web_ask"}
    /\ cred \in Credentials(endpoint)
    /\ env \in Envs
    /\ pc = IF endpoint = "ask" THEN "auth" ELSE "handler"
    /\ Idle
    /\ NoMarkup

-----------------------------------------------------------------------------
(* The request: steps *)

\* what every step of a request leaves alone
Fixed == UNCHANGED <<endpoint, cred, env, text, markup, remarkup>>

ScanIdle == UNCHANGED <<judge_response, lines, line_no, final_answer, reasoning,
                        current_section, judge_result>>

LoopIdle == UNCHANGED <<ready, task, outer, nfinished, inflight, calls>>

\* verify_api_key, the dependency of /ask
verify_api_key ==
    /\ pc = "auth"
    /\ endpoint = "ask"
    /\ IF cred = "unconfigured"
       THEN /\ response' = ErrorResponse(HTTPException(500, <<"API key not configured">>))
            /\ pc' = "done"
       ELSE IF cred = "invalid"
       THEN /\ response' = ErrorResponse(HTTPException(401, <<"Invalid API key">>))
            /\ pc' = "done"
       ELSE /\ response' = response
            /\ pc' = "handler"
    /\ UNCHANGED model_responses
    /\ Fixed /\ ScanIdle /\ LoopIdle

\* the handler up to `await asyncio.gather(*tasks)`: the configuration check, then
\* one task per backend model, each scheduled on the loop in the order of the list
FanOut ==
    IF ~ModelsConfigured(env)
    THEN /\ response' = ErrorResponse(HTTPException(500, <<"Models not properly configured">>))
         /\ pc' = "done"
         /\ UNCHANGED <<ready, task>>
    ELSE /\ task' = [i \in 1..3 |-> NewTask]
         /\ ready' = <<Step(1), Step(2), Step(3)>>
         /\ pc' = "await_gather"
         /\ response' = response

\* POST /ask, up to its first await
ask_question ==
    /\ pc = "handler"
    /\ endpoint = "ask"
    /\ FanOut
    /\ UNCHANGED <<outer, nfinished, inflight, calls, model_responses>>
    /\ Fixed /\ ScanIdle

\* POST /web-ask, up to its first await: the CSRF token is checked first
web_ask_question ==
    /\ pc = "handler"
    /\ endpoint = "web_ask"
    /\ IF cred # "ok"
       THEN /\ response' = ErrorResponse(HTTPException(403, <<"Invalid or expired CSRF token">>))
            /\ pc' = "done"
            /\ UNCHANGED <<ready, task>>
       ELSE FanOut
    /\ UNCHANGED <<outer, nfinished, inflight, calls, model_responses>>
    /\ Fixed /\ ScanIdle

\* the loop runs the first step of task i: call_cerebras_model up to
\* client.chat.completions.create, a blocking call of the synchronous client. The
\* coroutine holds no await, so the loop thread stays in it until the call is over
call_cerebras_model(i) ==
    /\ pc = "await_gather"
    /\ inflight = ""
    /\ ready # <<>>
    /\ Head(ready) = Step(i)
    /\ IF env.PARAMS = "invalid"
       THEN /\ task' = [task EXCEPT ![i].state = "raised", ![i].exc = ValueError]
            /\ ready' = Append(Tail(ready), Done(i))
            /\ UNCHANGED <<inflight, calls>>
       ELSE /\ task' = [task EXCEPT ![i].state = "inflight", ![i].model = env[Labels[i]]]
            /\ ready' = Tail(ready)
            /\ inflight' = Labels[i]
            /\ calls' = Append(calls, Labels[i])
    /\ UNCHANGED <<pc, outer, nfinished, model_responses, response>>
    /\ Fixed /\ ScanIdle

\* the provider answers task i's call: the coroutine returns the content, the
\* first completion's message or, with STREAM set, the fragments joined in order
ProviderReturns(i, content) ==
    /\ inflight = Labels[i]
    /\ task[i].state = "inflight"
    /\ task' = [task EXCEPT ![i].state = "returned", ![i].content = content]
    /\ inflight' = ""
    /\ ready' = Append(ready, Done(i))
    /\ UNCHANGED <<pc, outer, nfinished, calls, model_responses, response>>
    /\ Fixed /\ ScanIdle

\* a failed call is tried once more: the task's step is scheduled again
ProviderRaises_Retry(i, e) ==
    /\ inflight = Labels[i]
    /\ task[i].state = "inflight"
    /\ inflight' = ""
    /\ IF Len(SelectSeq(calls, LAMBDA c : c = Labels[i])) < 2
       THEN /\ task' = [task EXCEPT ![i].state = "created"]
            /\ ready' = Append(ready, Step(i))
       ELSE /\ task' = [task EXCEPT ![i].state = "raised",
                                    ![i].exc = UpstreamError(task[i].model, e)]
            /\ ready' = Append(ready, Done(i))
    /\ UNCHANGED <<pc, outer, nfinished, calls, model_responses, response>>
    /\ Fixed /\ ScanIdle

\* task i's call fails (the client raises, or the answer is malformed): the
\* except clause turns it into an HTTPException and the coroutine ends with it
ProviderRaises(i, e) ==
    /\ inflight = Labels[i]
    /\ task[i].state = "inflight"
    /\ task' = [task EXCEPT ![i].state = "raised",
                            ![i].exc = UpstreamError(task[i].model, e)]
    /\ inflight' = ""
    /\ ready' = Append(ready, Done(i))
    /\ UNCHANGED <<pc, outer, nfinished, calls, model_responses, response>>
    /\ Fixed /\ ScanIdle

\* asyncio.gather's callback for the finished child i (return_exceptions=False):
\* the first exception settles the outer future; the last child finished settles
\* it with the children's results in the order of the arguments
GatherDone(i) ==
    /\ pc = "await_gather"
    /\ inflight = ""
    /\ ready # <<>>
    /\ Head(ready) = Done(i)
    /\ nfinished' = nfinished + 1
    /\ IF outer.state # "pending"
       THEN /\ outer' = outer
            /\ ready' = Tail(ready)
       ELSE IF ChildFailed(task[i])
       THEN /\ outer' = [outer EXCEPT !.state = "exception", !.exc = task[i].exc]
            /\ ready' = Append(Tail(ready), Wakeup)
       ELSE IF nfinished + 1 = 3
       THEN /\ outer' = [outer EXCEPT !.state = "result",
                                      !.result = [k \in 1..3 |-> task[k].content]]
            /\ ready' = Append(Tail(ready), Wakeup)
       ELSE /\ outer' = outer
            /\ ready' = Tail(ready)
    /\ UNCHANGED <<pc, task, inflight, calls, model_responses, response>>
    /\ Fixed /\ ScanIdle

\* the handler resumes from `await asyncio.gather`: an exception leaves through
\* the except clauses; a result is put under the labels and process_with_judge
\* runs up to the judge's call (again a blocking call of call_cerebras_model)
HandlerResume ==
    /\ pc = "await_gather"
    /\ inflight = ""
    /\ ready # <<>>
    /\ Head(ready) = Wakeup
    /\ ready' = Tail(ready)
    /\ IF outer.state = "exception"
       THEN /\ response' = IF outer.exc.type = "HTTPException"
                           THEN ErrorResponse(outer.exc)
                           ELSE ErrorResponse(HTTPException(500,
                                    <<"Error processing request">> \o outer.exc.detail))
            /\ pc' = "done"
            /\ UNCHANGED <<model_responses, inflight, calls>>
       ELSE /\ model_responses' = BuildModelResponses(outer.result)
            /\ IF env.JUDGE = ""
               THEN /\ response' = ErrorResponse(HTTPException(500, <<"Judge model not configured">>))
                    /\ pc' = "done"
                    /\ UNCHANGED <<inflight, calls>>
               ELSE /\ inflight' = "JUDGE"
                    /\ calls' = Append(calls, "JUDGE")
                    /\ pc' = "judge_call"
                    /\ response' = response
    /\ UNCHANGED <<task, outer, nfinished>>
    /\ Fixed /\ ScanIdle

\* the judge's call returns: process_with_judge splits the text into lines
JudgeReturns(raw) ==
    /\ pc = "judge_call"
    /\ inflight = "JUDGE"
    /\ inflight' = ""
    /\ judge_response' = raw
    /\ lines' = Split(raw, "\n")
    /\ line_no' = 1
    /\ final_answer' = <<>>
    /\ reasoning' = <<>>
    /\ current_section' = ""
    /\ pc' = "scan"
    /\ UNCHANGED <<ready, task, outer, nfinished, calls, model_responses,
                   judge_result, response>>
    /\ Fixed

\* the judge's call fails: the HTTPException leaves the handler
JudgeRaises(e) ==
    /\ pc = "judge_call"
    /\ inflight = "JUDGE"
    /\ inflight' = ""
    /\ response' = ErrorResponse(UpstreamError(env.JUDGE, e))
    /\ pc' = "done"
    /\ UNCHANGED <<ready, task, outer, nfinished, calls, model_responses>>
    /\ Fixed /\ ScanIdle

\* one turn of `for i, line in enumerate(lines)`
ScanLine ==
    /\ pc = "scan"
    /\ line_no <= Len(lines)
    /\ LET st == ScanStep([final_answer |-> final_answer, reasoning |-> reasoning,
                           current_section |-> current_section], lines[line_no])
       IN  /\ final_answer' = st.final_answer
           /\ reasoning' = st.reasoning
           /\ current_section' = st.current_section
    /\ line_no' = line_no + 1
    /\ UNCHANGED <<pc, judge_response, lines, judge_result, model_responses, response>>
    /\ Fixed /\ LoopIdle

\* after the loop: the fallback, then the returned dict with both fields stripped
ReturnJudgeResult ==
    /\ pc = "scan"
    /\ line_no > Len(lines)
    /\ final_answer' = ApplyFallback(final_answer, reasoning, judge_response)
    /\ judge_result' = JudgeResult(final_answer', reasoning)
    /\ pc' = "respond"
    /\ UNCHANGED <<judge_response, lines, line_no, reasoning, current_section,
                   model_responses, response>>
    /\ Fixed /\ LoopIdle

\* the handler returns its response model
Respond ==
    /\ pc = "respond"
    /\ response' = IF endpoint = "ask"
                   THEN ModelResponse(Question,
                                      IF env.SHOW_MODEL_OUTPUT THEN model_responses ELSE NoDict,
                                      judge_result)
                   ELSE WebResponse(WebResponseText(judge_result))
    /\ pc' = "done"
    /\ UNCHANGED model_responses
    /\ Fixed /\ ScanIdle /\ LoopIdle

\* the judge outputs a request of Spec may receive
JudgeOutputs == Texts(JudgePieces, MaxJudgePieces)

Next ==
    \/ verify_api_key
    \/ ask_question
    \/ web_ask_question
    \/ \E i \in 1..3 : call_cerebras_model(i)
    \/ \E i \in 1..3, content \in BackendTexts : ProviderReturns(i, content)
    \/ \E i \in 1..3, e \in ProviderErrors : ProviderRaises(i, e)
    \/ \E i \in 1..3 : GatherDone(i)
    \/ HandlerResume
    \/ \E raw \in JudgeOutputs : JudgeReturns(raw)
    \/ \E e \in ProviderErrors : JudgeRaises(e)
    \/ ScanLine
    \/ ReturnJudgeResult
    \/ Respond

Spec == Init /\ [][Next]_vars

-----------------------------------------------------------------------------
(* process_with_judge alone: the judge's call is out, every output is parsed *)

\* the judge outputs SpecJudge parses
ParseInputs == Texts(JudgePieces, MaxParsePieces) \cup {ExampleJudgeOutput}

\* the request as it stands when the fan-out has succeeded and the judge's call
\* has just been issued
InitJudge ==
    /\ endpoint = "ask"
    /\ cred = "ok"
    /\ env = [MODEL1 |-> ModelId.MODEL1, MODEL2 |-> ModelId.MODEL2,
              MODEL3 |-> ModelId.MODEL3, JUDGE |-> ModelId.JUDGE,
              SHOW_MODEL_OUTPUT |-> FALSE, PARAMS |-> "valid"]
    /\ pc = "judge_call"
    /\ ready = <<>>
    /\ task = [i \in 1..3 |-> [state |-> "returned", model |-> ModelId[Labels[i]],
                               content |-> <<"x">>, exc |-> NoException]]
    /\ outer = [state |-> "result", result |-> <<<<"x">>, <<"x">>, <<"x">>>>,
                exc |-> NoException]
    /\ nfinished = 3
    /\ inflight = "JUDGE"
    /\ calls = <<"MODEL1", "MODEL2", "MODEL3", "JUDGE">>
    /\ model_responses = BuildModelResponses(<<<<"x">>, <<"x">>, <<"x">>>>)
    /\ judge_response = <<>>
    /\ lines = <<>>
    /\ line_no = 0
    /\ final_answer = <<>>
    /\ reasoning = <<>>
    /\ current_section = ""
    /\ judge_result = NoDict
    /\ response = NoResponse
    /\ NoMarkup

NextJudge ==
    \/ \E raw \in ParseInputs : JudgeReturns(raw)
    \/ \E e \in ProviderErrors : JudgeRaises(e)
    \/ ScanLine
    \/ ReturnJudgeResult
    \/ Respond

SpecJudge == InitJudge /\ [][NextJudge]_vars

-----------------------------------------------------------------------------
(* convert_to_markup alone: no handler calls it, so it is applied to every text *)

InitMarkup ==
    /\ endpoint = "none"
    /\ cred = "none"
    /\ env = [MODEL1 |-> "", MODEL2 |-> "", MODEL3 |-> "", JUDGE |-> "",
              SHOW_MODEL_OUTPUT |-> FALSE, PARAMS |-> "valid"]
    /\ pc = "normalize"
    /\ Idle
    /\ text \in Texts(MarkupPieces, MaxMarkupPieces)
    /\ markup = <<>>
    /\ remarkup = <<>>

\* markup = convert_to_markup(text)
Normalize ==
    /\ pc = "normalize"
    /\ markup' = convert_to_markup(text)
    /\ pc' = "renormalize"
    /\ UNCHANGED <<endpoint, cred, env, text, remarkup, model_responses, response>>
    /\ ScanIdle /\ LoopIdle

\* the markup fed back: remarkup = convert_to_markup(markup)
Renormalize ==
    /\ pc = "renormalize"
    /\ remarkup' = convert_to_markup(markup)
    /\ pc' = "normalized"
    /\ UNCHANGED <<endpoint, cred, env, text, markup, model_responses, response>>
    /\ ScanIdle /\ LoopIdle

NextMarkup == Normalize \/ Renormalize

SpecMarkup == InitMarkup /\ [][NextMarkup]_vars

-----------------------------------------------------------------------------
(* Properties of the fan-out and of the handlers, checked under Spec *)

\* how often the request has called the model behind a label
Count(label) == Len(SelectSeq(calls, LAMBDA c : c = label))

\* task i's upstream call has been issued and is over
CallOver(i) == task[i].model # "" /\ task[i].state \in {"returned", "raised"}

\* the response carries the exception exc: an HTTPException as it was raised, any
\* other exception inside the handler's "Error processing request"
Surfaces(exc) ==
    /\ response.kind = "error"
    /\ response.status = 500
    /\ \/ response.detail = exc.detail
       \/ response.detail = <<"Error processing request">> \o exc.detail

\* C1: the three backend calls of a fan-out are in flight together, not one after
\* another: when a backend call is over, the other two have already been issued.
C1_CallsInFlightTogether ==
    \A i, j \in 1..3 : CallOver(i) => task[j].model # ""

\* What the source does instead: at most one upstream call is out at any time, and
\* a call is issued only when every call issued before it is over.
OneCallAtATime ==
    /\ Cardinality({i \in 1..3 : task[i].state = "inflight"}) <= 1
    /\ \A i, j \in 1..3 : (i < j /\ task[j].model # "") => CallOver(i)

\* C2: all-or-nothing fan-out. Once one of the three backend invocations has failed,
\* no model_responses mapping is ever built, the judge is never called, no
\* successful response is given, and the request ends with the error of a failed
\* invocation.
C2_AllOrNothing ==
    (\E i \in 1..3 : task[i].state = "raised") =>
        /\ ~model_responses.set
        /\ ~judge_result.set
        /\ Count("JUDGE") = 0
        /\ response.kind \in {"none", "error"}
        /\ pc \in {"await_gather", "done"}
        /\ pc = "done" => \E i \in 1..3 : task[i].state = "raised" /\ Surfaces(task[i].exc)

\* C2's case: a request has failed as a whole although two of its three backends had answered
C2_Witness ==
    /\ pc = "done"
    /\ task[1].state = "returned"
    /\ task[2].state = "raised"
    /\ task[3].state = "returned"
    /\ response.kind = "error"
    /\ response.detail = <<"Error calling", ModelId.MODEL2, "APIError">>

\* C3: when all three backend invocations have succeeded, the text under each of
\* MODEL1, MODEL2, MODEL3 is the text returned by the invocation that was issued
\* for the model configured under that label.
C3_LabelsKeepTheirText ==
    model_responses.set =>
        \A k \in 1..3 :
            /\ task[k].state = "returned"
            /\ task[k].model = env[Labels[k]]
            /\ model_responses[Labels[k]] = task[k].content

\* C3's case: a mapping built from three answers that are not all the same
C3_Witness ==
    /\ pc = "done"
    /\ model_responses.set
    /\ model_responses.MODEL1 = <<"x">>
    /\ model_responses.MODEL2 = <<"y">>
    /\ model_responses.MODEL3 = <<"x">>
    /\ task[2].content = <<"y">>

\* C6 as the specification states it: the text /web-ask answers with is the markup
\* normaliser's output for the judge's final answer.
C6_WebResponseIsNormalized ==
    (pc = "done" /\ response.kind = "WebResponse") =>
        response.response = convert_to_markup(judge_result.final_answer)

\* C6, amended: the text /web-ask answers with is the judge's final answer as
\* process_with_judge returned it; the markup normaliser is not applied to it.
C6_WebResponseIsFinalAnswer ==
    (pc = "done" /\ response.kind = "WebResponse") =>
        /\ judge_result.set
        /\ response.response = judge_result.final_answer

\* C6's case: /web-ask has answered with a final answer the normaliser would have changed
C6_Witness ==
    /\ pc = "done"
    /\ endpoint = "web_ask"
    /\ response.kind = "WebResponse"
    /\ response.response = <<"a">>
    /\ convert_to_markup(response.response) = TagPOpen \o <<"a">> \o TagPClose

\* C7: no retry. Each of the three backend models and the judge model is called at
\* most once per question, and the judge's call is issued only after all three
\* backend calls have been issued and have returned an answer.
C7_AtMostOnce ==
    /\ \A label \in {"MODEL1", "MODEL2", "MODEL3", "JUDGE"} : Count(label) <= 1
    /\ Count("JUDGE") = 1 =>
           /\ calls = <<"MODEL1", "MODEL2", "MODEL3", "JUDGE">>
           /\ \A k \in 1..3 : task[k].state = "returned"

\* C7's case: a request has ended after a failed backend call and the two calls
\* that followed it, each label called once and the judge not at all
C7_Witness ==
    /\ pc = "done"
    /\ task[1].state = "raised"
    /\ task[1].model # ""
    /\ calls = <<"MODEL1", "MODEL2", "MODEL3">>
    /\ response.kind = "error"

\* C10 as stated: a request that ends in a configuration error (one of MODEL1,
\* MODEL2, MODEL3, JUDGE unset) has issued no upstream model call.
C10_ConfigErrorBeforeAnyCall ==
    (/\ response.kind = "error"
     /\ response.detail \in {<<"Models not properly configured">>,
                             <<"Judge model not configured">>})
        => calls = <<>>

\* C10, amended: with one of MODEL1, MODEL2, MODEL3 unset no upstream call is ever
\* issued and the request ends in "Models not properly configured"; JUDGE is looked
\* at only after the fan-out, so a request that ends in "Judge model not
\* configured" has issued exactly the three backend calls, all answered, and no
\* judge call.
C10_ConfigErrors ==
    /\ (\E k \in 1..3 : env[Labels[k]] = "") =>
           /\ calls = <<>>
           /\ pc = "done" =>
                  /\ response.kind = "error"
                  /\ cred = "ok" => response.detail = <<"Models not properly configured">>
    /\ (/\ response.kind = "error"
        /\ response.detail = <<"Models not properly configured">>) => calls = <<>>
    /\ (/\ response.kind = "error"
        /\ response.detail = <<"Judge model not configured">>) =>
           /\ calls = <<"MODEL1", "MODEL2", "MODEL3">>
           /\ \A k \in 1..3 : task[k].state = "returned"

\* C10's case: a request has ended in the judge's configuration error after three calls
C10_Witness ==
    /\ pc = "done"
    /\ env.JUDGE = ""
    /\ response.kind = "error"
    /\ response.detail = <<"Judge model not configured">>
    /\ Len(calls) = 3

-----------------------------------------------------------------------------
(* Properties of the judge's parser, checked under SpecJudge *)

\* a turn of the scan: the line with index line_no is consumed
ScanTurn == pc = "scan" /\ line_no' = line_no + 1

\* C4 as stated: a line beginning with FINAL_ANSWER: (REASONING:) starts the field
\* with the marker and the surrounding whitespace taken off that line; every other
\* line is appended as it is, after a separating space, to the active field; lines
\* before the first marker are dropped.
C4_ScanAsStated ==
    [][ScanTurn =>
        LET line == lines[line_no]
        IN  IF StartsWith(line, FINAL_ANSWER_MARKER)
            THEN /\ current_section' = "final_answer"
                 /\ final_answer' = Strip(From(line, Len(FINAL_ANSWER_MARKER) + 1))
                 /\ reasoning' = reasoning
            ELSE IF StartsWith(line, REASONING_MARKER)
            THEN /\ current_section' = "reasoning"
                 /\ reasoning' = Strip(From(line, Len(REASONING_MARKER) + 1))
                 /\ final_answer' = final_answer
            ELSE /\ current_section' = current_section
                 /\ final_answer' = IF current_section = "final_answer"
                                    THEN final_answer \o <<" ">> \o line
                                    ELSE final_answer
                 /\ reasoning' = IF current_section = "reasoning"
                                 THEN reasoning \o <<" ">> \o line
                                 ELSE reasoning]_vars

\* C4, amended: a line beginning with FINAL_ANSWER: (REASONING:) starts the field
\* anew with that line, every occurrence of the marker removed from it and the rest
\* stripped of surrounding whitespace; every other line is appended, stripped of
\* its surrounding whitespace and after a separating space, to the active field;
\* lines before the first marker are dropped.
C4_Scan ==
    [][ScanTurn =>
        LET line == lines[line_no]
        IN  IF StartsWith(line, FINAL_ANSWER_MARKER)
            THEN /\ current_section' = "final_answer"
                 /\ final_answer' = Strip(Replace(line, FINAL_ANSWER_MARKER, <<>>))
                 /\ reasoning' = reasoning
            ELSE IF StartsWith(line, REASONING_MARKER)
            THEN /\ current_section' = "reasoning"
                 /\ reasoning' = Strip(Replace(line, REASONING_MARKER, <<>>))
                 /\ final_answer' = final_answer
            ELSE /\ current_section' = current_section
                 /\ final_answer' = IF current_section = "final_answer"
                                    THEN final_answer \o <<" ">> \o Strip(line)
                                    ELSE final_answer
                 /\ reasoning' = IF current_section = "reasoning"
                                 THEN reasoning \o <<" ">> \o Strip(line)
                                 ELSE reasoning]_vars

\* C4's example: "FINAL_ANSWER: Hello\nworld\nREASONING: because X" has been parsed into
\* final_answer = "Hello world" and reasoning = "because X"
C4_Witness ==
    /\ judge_response = ExampleJudgeOutput
    /\ judge_result.set
    /\ judge_result.final_answer = <<"H", "e", "l", "l", "o", " ", "w", "o", "r", "l", "d">>
    /\ judge_result.reasoning = <<"b", "e", "c", "a", "u", "s", "e", " ", "X">>

\* process_with_judge returns: the step from the end of the scan to the result
ParseReturns == pc = "scan" /\ pc' = "respond"

\* C5 as stated: for every judge output that is any non-empty text, the returned
\* result is not completely empty.
C5_NeverEmptyForNonEmptyOutput ==
    (judge_result.set /\ judge_response # <<>>) =>
        ~(judge_result.final_answer = <<>> /\ judge_result.reasoning = <<>>)

\* C5, amended: whenever the scan leaves final_answer and reasoning both blank, the
\* whole raw judge output, trimmed, is returned as final_answer with reasoning
\* empty; so for every judge output that holds a character other than whitespace
\* the returned result is not completely empty.
C5_Fallback ==
    [][ParseReturns =>
        /\ (Strip(final_answer) = <<>> /\ Strip(reasoning) = <<>>) =>
               /\ judge_result'.final_answer = Strip(judge_response)
               /\ judge_result'.reasoning = <<>>
        /\ Strip(judge_response) # <<>> =>
               ~(judge_result'.final_answer = <<>> /\ judge_result'.reasoning = <<>>)]_vars

\* C5's case: an output without markers has come back whole as the final answer
C5_Witness ==
    /\ judge_result.set
    /\ current_section = ""
    /\ judge_response = <<"a", " ", "a", "\n">>
    /\ judge_result.final_answer = <<"a", " ", "a">>
    /\ judge_result.reasoning = <<>>

-----------------------------------------------------------------------------
(* Properties of convert_to_markup, checked under SpecMarkup *)

\* the lines of a text
LinesOf(s) == LET ls == Split(s, "\n") IN {ls[k] : k \in 1..Len(ls)}

\* a heading element of level n on a line of its own
IsHeadingLine(l, n) == StartsWith(l, HOpen(n)) /\ EndsWith(l, HClose(n))

\* a line that starts with at least n of the character c
StartsWithRun(l, c, n) == Len(l) >= n /\ \A k \in 1..n : l[k] = c

\* the level of the header a line starts: its leading #s, three at most; 0 if none
HeaderLevel(l) ==
    IF StartsWithRun(l, "#", 3) THEN 3
    ELSE IF StartsWithRun(l, "#", 2) THEN 2
    ELSE IF StartsWithRun(l, "#", 1) THEN 1
    ELSE 0

\* C8: every input line that starts with #, ## or ### becomes a heading element of
\* that level, and every input line that starts with three or more asterisks or
\* three or more dashes becomes a horizontal-rule element.
C8_HeadersAndRules ==
    pc # "normalize" =>
        \A l \in LinesOf(text) :
            /\ HeaderLevel(l) > 0 =>
                   \E o \in LinesOf(markup) : IsHeadingLine(o, HeaderLevel(l))
            /\ (StartsWithRun(l, "*", 3) \/ StartsWithRun(l, "-", 3)) =>
                   \E o \in LinesOf(markup) : StartsWith(o, TagHr)

\* C9: every heading line and every rule line of convert_to_markup(text) is a line
\* of convert_to_markup(convert_to_markup(text)), unchanged.
C9_RoundTrip ==
    pc = "normalized" =>
        \A l \in LinesOf(markup) :
            ((\E n \in 1..3 : IsHeadingLine(l, n)) \/ StartsWith(l, TagHr)) =>
                l \in LinesOf(remarkup)

====
